---- MODULE Spec2Model ----
(***************************************************************************)
(* A model of the Wordle game API of src/api/index.ts: the guess           *)
(* evaluator checkWord, the score calculator calculateScore, and the       *)
(* endpoints that call them or show their results (/game/check,            *)
(* /game/playGame, /slack-guess, /game/leaderboard/add,                    *)
(* /game/leaderboard/viewAll).                                             *)
(*                                                                         *)
(* Words are sequences of one-character strings; positions are 1-based     *)
(* here and 0-based in the source.  Classification codes are the source's: *)
(* 0 = exact (green), 1 = present (yellow), 2 = absent.                    *)
(***************************************************************************)
EXTENDS Integers, Sequences, FiniteSets, TLC

VARIABLES
    solution,     \* data.solution.toLowerCase(): the day's secret, as getWord returned it
    word,         \* the `word` query parameter the client sends (raw, before cleanWord)
    lastGuess,    \* gL = word.split(""), as handed to the latest checkWord call (<<>> before any)
    sY,           \* the consumed array handed to the latest checkWord call, as the call left it
    result,       \* the array the latest checkWord call returned (<<>> before any call)
    prevResult,   \* the array the checkWord call before that returned (<<>> before two calls)
    checkResp,    \* the latest response of GET /game/check
    playResp,     \* the latest response of GET /game/playGame
    slackResp,    \* the latest response of POST /slack-guess
    usersCol,     \* the users collection of the date: userId -> entry
    session,      \* the POST /slack-guess request each session has in flight: where
                  \* the handler stands, and its locals
    sends,        \* how many /slack-guess requests the sessions have sent
    addReq,       \* the POST /game/leaderboard/add request of each client: the body it
                  \* sent, pending until the handler has answered
    addResp,      \* the responses to them
    leaderboard,  \* the leaderboard collection: userId -> record where all requests
                  \* carry one date, <<userId, date>> -> record under ViewSpec
    boardResp     \* the latest response to a leaderboard request that carried a date

evalVars == <<solution, word, lastGuess, sY, result, prevResult>>
respVars == <<checkResp, playResp, slackResp>>
raceVars == <<session, sends>>
vars == <<solution, word, lastGuess, sY, result, prevResult,
          checkResp, playResp, slackResp, usersCol, session, sends,
          addReq, addResp, leaderboard, boardResp>>

(***************************************************************************)
(* Bounds of the model.                                                    *)
(***************************************************************************)
\* Secrets and guesses are drawn from all words over the first NumLetters
\* letters of the alphabet (and from the examples the specification names).
NumLetters == 2
\* The histories posted to /game/leaderboard/add: every sequence of at most
\* MaxHist evaluations over RowKinds, and every longer one of at most MaxLong
\* evaluations over LongKinds.
MaxHist == 6
MaxLong == 17
\* The /slack-guess requests the sessions send, all told.
MaxSends == 7
\* The longest history of entries of any length a client posts.
MaxRagged == 3

(***************************************************************************)
(* Program constants.                                                      *)
(***************************************************************************)
WordLen == 5
PartialCap == 400

Alphabet ==
    <<"a", "b", "c", "d", "e", "f", "g", "h", "i", "j", "k", "l", "m",
      "n", "o", "p", "q", "r", "s", "t", "u", "v", "w", "x", "y", "z">>
UpperCase ==
    <<"A", "B", "C", "D", "E", "F", "G", "H", "I", "J", "K", "L", "M",
      "N", "O", "P", "Q", "R", "S", "T", "U", "V", "W", "X", "Y", "Z">>

\* What indexing a JavaScript array past its end gives.
Undefined == "undefined"

Letters == {Alphabet[i] : i \in 1..NumLetters}
Words == [1..WordLen -> Letters]

\* s[i] of a JavaScript array: undefined past its end.
At(s, i) == IF i \in DOMAIN s THEN s[i] ELSE Undefined

\* a[i] = v of a JavaScript array that is filled from the left.
Put(a, i, v) == IF i = Len(a) + 1 THEN Append(a, v) ELSE [a EXCEPT ![i] = v]

(***************************************************************************)
(* cleanWord: lower-case, trim, then the length and the alphabet checks.   *)
(* An error message is the sequence of its pieces (see handleError).       *)
(***************************************************************************)
LowerLetters == {Alphabet[i] : i \in DOMAIN Alphabet}
UpperLetters == {UpperCase[i] : i \in DOMAIN UpperCase}
LowerOf ==
    [ch \in UpperLetters |-> Alphabet[CHOOSE i \in DOMAIN UpperCase : UpperCase[i] = ch]]

\* String.prototype.toLowerCase, one character at a time.
ToLowerCase(ch) == IF ch \in UpperLetters THEN LowerOf[ch] ELSE ch

RECURSIVE TrimStart(_)
TrimStart(w) == IF w # <<>> /\ Head(w) = " " THEN TrimStart(Tail(w)) ELSE w

RECURSIVE TrimEnd(_)
TrimEnd(w) ==
    IF w # <<>> /\ w[Len(w)] = " " THEN TrimEnd(SubSeq(w, 1, Len(w) - 1)) ELSE w

Trim(w) == TrimEnd(TrimStart(w))

\* /^[a-z]+$/, one character at a time.
IsLowerLetter(ch) == ch \in LowerLetters

cleanWord(w) ==
    LET cleaned == Trim([i \in DOMAIN w |-> ToLowerCase(w[i])])
    IN  IF Len(cleaned) # WordLen
        THEN [ok |-> FALSE, error |-> <<"Guess parameter length is invalid", ":", " ", "400">>]
        ELSE IF \E i \in DOMAIN cleaned : ~IsLowerLetter(cleaned[i])
        THEN [ok |-> FALSE, error |-> <<"Guess must contain only letters", ":", " ", "400">>]
        ELSE [ok |-> TRUE, word |-> cleaned]

(***************************************************************************)
(* checkWord(gL, sL, sY): two passes over the five positions.  The source  *)
(* mutates sY in place and returns result; here the call returns both.     *)
(***************************************************************************)
\* A variant of pass 1 that forgets to consume the secret position it matched.
RECURSIVE Pass1NoConsume(_, _, _, _)
Pass1NoConsume(gL, sL, st, i) ==
    IF i > WordLen THEN st
    ELSE IF At(gL, i) = At(sL, i)
    THEN Pass1NoConsume(gL, sL, [st EXCEPT !.result = Put(@, i, 0)], i + 1)
    ELSE Pass1NoConsume(gL, sL, [st EXCEPT !.result = Put(@, i, 2)], i + 1)

\* A variant of pass 1 that marks exact any letter the secret holds anywhere.
RECURSIVE Pass1Anywhere(_, _, _, _)
Pass1Anywhere(gL, sL, st, i) ==
    IF i > WordLen THEN st
    ELSE IF \E j \in 1..WordLen : At(gL, i) = At(sL, j)
    THEN Pass1Anywhere(gL, sL, [result |-> Put(st.result, i, 0),
                                sY |-> [st.sY EXCEPT ![i] = TRUE]], i + 1)
    ELSE Pass1Anywhere(gL, sL, [st EXCEPT !.result = Put(@, i, 2)], i + 1)

\* Pass 1, the loop of lines 146-153, entered at position i.
RECURSIVE Pass1(_, _, _, _)
Pass1(gL, sL, st, i) ==
    IF i > WordLen THEN st
    ELSE IF At(gL, i) = At(sL, i)
    THEN Pass1(gL, sL, [result |-> Put(st.result, i, 0),
                        sY |-> [st.sY EXCEPT ![i] = TRUE]], i + 1)
    ELSE Pass1(gL, sL, [st EXCEPT !.result = Put(@, i, 2)], i + 1)

\* A variant of the inner scan that does not look at the consumed array.
RECURSIVE ScanIgnoreConsumed(_, _, _, _, _)
ScanIgnoreConsumed(gL, sL, st, i, j) ==
    IF j > WordLen THEN st
    ELSE IF At(gL, i) = At(sL, j)
    THEN [result |-> [st.result EXCEPT ![i] = 1], sY |-> [st.sY EXCEPT ![j] = TRUE]]
    ELSE ScanIgnoreConsumed(gL, sL, st, i, j + 1)

\* A variant of the inner scan that gives up at the first secret position
\* holding the letter when that position is already consumed.
RECURSIVE ScanFirstMatchOnly(_, _, _, _, _)
ScanFirstMatchOnly(gL, sL, st, i, j) ==
    IF j > WordLen THEN st
    ELSE IF At(gL, i) = At(sL, j)
    THEN IF st.sY[j] THEN st
         ELSE [result |-> [st.result EXCEPT ![i] = 1], sY |-> [st.sY EXCEPT ![j] = TRUE]]
    ELSE ScanFirstMatchOnly(gL, sL, st, i, j + 1)

\* The inner loop of pass 2 for guess position i, lines 156-162, entered at
\* secret position j: the first unconsumed secret position holding the letter
\* is consumed and the loop breaks.
RECURSIVE Scan(_, _, _, _, _)
Scan(gL, sL, st, i, j) ==
    IF j > WordLen THEN st
    ELSE IF ~st.sY[j] /\ At(gL, i) = At(sL, j)
    THEN [result |-> [st.result EXCEPT ![i] = 1], sY |-> [st.sY EXCEPT ![j] = TRUE]]
    ELSE Scan(gL, sL, st, i, j + 1)

\* A variant of pass 2 that scans for every position, also the exact ones.
RECURSIVE Pass2EveryPosition(_, _, _, _)
Pass2EveryPosition(gL, sL, st, i) ==
    IF i > WordLen THEN st
    ELSE Pass2EveryPosition(gL, sL, Scan(gL, sL, st, i, 1), i + 1)

\* A variant of pass 2 that walks the guess from its last position to its
\* first: its i-th step handles position WordLen + 1 - i.
RECURSIVE Pass2Backwards(_, _, _, _)
Pass2Backwards(gL, sL, st, i) ==
    IF i > WordLen THEN st
    ELSE IF st.result[WordLen + 1 - i] = 2
    THEN Pass2Backwards(gL, sL, Scan(gL, sL, st, WordLen + 1 - i, 1), i + 1)
    ELSE Pass2Backwards(gL, sL, st, i + 1)

\* Pass 2, the loop of lines 154-164, entered at position i.
RECURSIVE Pass2(_, _, _, _)
Pass2(gL, sL, st, i) ==
    IF i > WordLen THEN st
    ELSE IF st.result[i] = 2
    THEN Pass2(gL, sL, Scan(gL, sL, st, i, 1), i + 1)
    ELSE Pass2(gL, sL, st, i + 1)

checkWord(gL, sL, consumed) ==
    Pass2(gL, sL, Pass1(gL, sL, [result |-> <<>>, sY |-> consumed], 1), 1)

\* A handler that keeps the consumed array of the call before.
StaleConsumed(old) == old

\* `new Array(5).fill(false)`: every handler allocates the consumed array anew,
\* whatever the array of the call before holds.
FreshConsumed(old) == [i \in 1..WordLen |-> FALSE]

\* result.every(r => r === 0)
AllExact(r) == \A i \in DOMAIN r : r[i] = 0

(***************************************************************************)
(* calculateScore(guesses).                                                *)
(***************************************************************************)
\* The loops of lines 188-198 count, guess after guess and value after value,
\* the values equal to val: totalGreen for val = 0, totalYellow for val = 1.
\* CountInGuess is the inner loop entered at the k-th value of a guess,
\* CountMarks the outer loop entered at the n-th guess.
RECURSIVE CountInGuess(_, _, _)
CountInGuess(guess, val, k) ==
    IF k > Len(guess) THEN 0
    ELSE (IF guess[k] = val THEN 1 ELSE 0) + CountInGuess(guess, val, k + 1)

\* A variant that counts in the first evaluation only.
CountMarksFirstRow(guesses, val, n) ==
    IF n > Len(guesses) THEN 0 ELSE CountInGuess(guesses[n], val, 1)

RECURSIVE CountMarks(_, _, _)
CountMarks(guesses, val, n) ==
    IF n > Len(guesses) THEN 0
    ELSE CountInGuess(guesses[n], val, 1) + CountMarks(guesses, val, n + 1)

\* hasAnyGreen is set by the same branch that adds to totalGreen (lines 190-193).
RECURSIVE HasAnyGreen(_, _)
HasAnyGreen(guesses, n) ==
    IF n > Len(guesses) THEN FALSE
    ELSE (\E k \in DOMAIN guesses[n] : guesses[n][k] = 0) \/ HasAnyGreen(guesses, n + 1)

\* A variant that finds the last all-exact evaluation instead of the first.
RECURSIVE FindLastIndex(_, _)
FindLastIndex(guesses, n) ==
    IF n > Len(guesses) THEN -1
    ELSE LET later == FindLastIndex(guesses, n + 1)
         IN  IF later # -1 THEN later
             ELSE IF AllExact(guesses[n]) THEN n - 1
             ELSE -1

\* guesses.findIndex(g => g.every(x => x === 0)), the search entered at the
\* n-th guess: the 0-based index of the first all-exact evaluation, or -1.
RECURSIVE FindIndex(_, _)
FindIndex(guesses, n) ==
    IF n > Len(guesses) THEN -1
    ELSE IF AllExact(guesses[n]) THEN n - 1
    ELSE FindIndex(guesses, n + 1)

\* A variant whose overflow branch starts one guess late.
SolvedScoreLate(n) ==
    CASE n = 1 -> 1000
      [] n = 2 -> 900
      [] n = 3 -> 800
      [] n = 4 -> 700
      [] n = 5 -> 600
      [] n = 6 -> 500
      [] OTHER -> 500 - (n - 7) * 50

\* The switch of lines 202-210 over winIndex + 1.
SolvedScore(n) ==
    CASE n = 1 -> 1000
      [] n = 2 -> 900
      [] n = 3 -> 800
      [] n = 4 -> 700
      [] n = 5 -> 600
      [] n = 6 -> 500
      [] OTHER -> 500 - (n - 6) * 50

\* A variant without the cap.
PartialScoreUncapped(totalGreen, totalYellow) == totalGreen * 10 + totalYellow * 4

\* Lines 212-213: Math.min(totalGreen * 10 + totalYellow * 4, 400).
PartialScore(totalGreen, totalYellow) ==
    LET partial == totalGreen * 10 + totalYellow * 4
    IN  IF partial < PartialCap THEN partial ELSE PartialCap

\* A variant without the `if (!hasAnyGreen) return 0` of line 199.
calculateScoreNoGate(guesses) ==
    LET winIndex == FindIndex(guesses, 1)
    IN  IF winIndex # -1 THEN SolvedScore(winIndex + 1)
        ELSE PartialScore(CountMarks(guesses, 0, 1), CountMarks(guesses, 1, 1))

calculateScore(guesses) ==
    IF ~HasAnyGreen(guesses, 1) THEN 0
    ELSE LET winIndex == FindIndex(guesses, 1)
         IN  IF winIndex # -1 THEN SolvedScore(winIndex + 1)
             ELSE PartialScore(CountMarks(guesses, 0, 1), CountMarks(guesses, 1, 1))

\* A variant that empties the array it was handed.
AfterScoreEmptied(guesses) == <<>>

\* The array `guesses` as a calculateScore call leaves it: lines 184-214
\* assign to the locals only, never to the array or to a row of it.
AfterScore(guesses) == guesses

(***************************************************************************)
(* handleError: an error whose message includes ": 400" is answered with   *)
(* HTTP 400 and the message without that mark, any other with HTTP 500.    *)
(* A message is the sequence of its pieces: a run of words is one piece,   *)
(* and every colon, every blank next to one and every number is a piece    *)
(* of its own, so that ": 400" occurs in a text exactly where its three    *)
(* pieces follow one another.                                              *)
(***************************************************************************)
\* The text ": 400" that handleError looks for, in pieces.
Needle400 == <<":", " ", "400">>

\* message.indexOf(": 400") from piece k on: the place of the first
\* occurrence, 0 if there is none.
RECURSIVE IndexOf400(_, _)
IndexOf400(message, k) ==
    IF k + Len(Needle400) - 1 > Len(message) THEN 0
    ELSE IF SubSeq(message, k, k + Len(Needle400) - 1) = Needle400 THEN k
    ELSE IndexOf400(message, k + 1)

\* message.includes(": 400")
Includes400(message) == IndexOf400(message, 1) # 0

\* message.replace(": 400", ""): the first occurrence is removed.
RemoveFirst400(message) ==
    LET i == IndexOf400(message, 1)
    IN  SubSeq(message, 1, i - 1) \o SubSeq(message, i + Len(Needle400), Len(message))

handleError(message) ==
    IF Includes400(message)
    THEN [status |-> 400, error |-> "Bad Request", details |-> RemoveFirst400(message)]
    ELSE [status |-> 500, error |-> "Internal Server Error",
          details |-> <<"Internal Server Error: 500", " ">> \o message]

NoResp == [status |-> 0]

(***************************************************************************)
(* getWord and getValidWords: the two fetches.  A response of the other    *)
(* side is its status, its status text and `ok`, true for 200..299.        *)
(***************************************************************************)
Response(status, statusText) ==
    [status |-> status, statusText |-> statusText, ok |-> status \in 200..299]

\* The responses the word provider and the host of the word list give.
Responses ==
    { Response(200, "OK"), Response(400, "Bad Request"), Response(404, "Not Found"),
      Response(500, "Internal Server Error"), Response(503, "Service Unavailable") }

\* The template of lines 120 and 129: what, a colon, a blank, the status in
\* decimal digits, a blank, the status text.
FetchError(what, res) == <<what, ":", " ", ToString(res.status), " ", res.statusText>>

\* The timestamp parameter by the branch of lines 81-107 it takes: none
\* (falsy), a string of the form YYYY-MM-DD, a string or number that Date
\* parses, one that Date does not parse, and a value that is neither string
\* nor number nor Date.
Timestamps == {"none", "date", "parsable", "unparsable", "other type"}
\* A query parameter is a string or missing.
QueryTimestamps == Timestamps \ {"other type"}

\* Lines 78-123: the timestamp is turned into a date, then the word of that
\* date is fetched; res is what the provider answers.
getWord(timestamp, res) ==
    IF timestamp = "unparsable"
    THEN [ok |-> FALSE, error |-> <<"Timestamp parameter format is invalid", ":", " ", "400">>]
    ELSE IF timestamp = "other type"
    THEN [ok |-> FALSE, error |-> <<"Invalid timestamp parameter type", ":", " ", "400">>]
    ELSE IF ~res.ok
    THEN [ok |-> FALSE, error |-> FetchError("Failed to fetch word", res)]
    ELSE [ok |-> TRUE]

\* Lines 125-135: res is what the host of the list answers.
getValidWords(res) ==
    IF ~res.ok
    THEN [ok |-> FALSE, error |-> FetchError("Failed to fetch words list", res)]
    ELSE [ok |-> TRUE]

(***************************************************************************)
(* The clients' inputs.                                                    *)
(***************************************************************************)
\* The examples the specification names: secret "aback" with guess "aaaaa",
\* and secret "crane" with guess "crane".
Aback == <<"a", "b", "a", "c", "k">>
Aaaaa == <<"a", "a", "a", "a", "a">>
Crane == <<"c", "r", "a", "n", "e">>
NamedPairs ==
    {[solution |-> Aback, word |-> Aaaaa], [solution |-> Crane, word |-> Crane]}

\* `word` parameters that cleanWord has work to do on, or that are rejected:
\* none at all, too short, upper case, padded with blanks, not a letter.
RawWords ==
    { <<>>,
      <<"a", "b">>,
      <<"A", "B", "A", "C", "A">>,
      <<" ", "a", "b", "c", "a", "b", " ">>,
      <<"a", "b", "1", "c", "a">> }

Pairs ==
    [solution : Words, word : Words \cup RawWords] \cup NamedPairs

\* The `guesses` parameter of /game/playGame, parsed: the client sends the
\* JSON text of a two-dimensional array, here the empty history "[]".
PlayInputs == {<<>>}

\* The list getValidWords returns: every word of the model but "aaaaa".
ValidWords == (Words \cup {Aback, Crane}) \ {Aaaaa}

\* The user of /slack-guess.
SlackUser == "u1"

\* The sessions of that user that send /slack-guess requests side by side.
Sessions == {"s1", "s2"}
IdleSession ==
    [pc |-> "idle", word |-> <<>>, guessesArr |-> <<>>, wordsTried |-> <<>>,
     result |-> <<>>, resp |-> NoResp]

(***************************************************************************)
(* The users of the leaderboard; all requests carry the same date.         *)
(***************************************************************************)
Users == {"u1", "u2"}
NoReq == [pending |-> FALSE]
NoEntry == [stored |-> FALSE]

\* The evaluations the posted histories are made of: all exact, four exact
\* and one present, one exact and one present, no exact but presents, all absent.
AllExactRow == <<0, 0, 0, 0, 0>>
NearRow == <<0, 0, 0, 0, 1>>
RowKinds == {AllExactRow, NearRow, <<0, 2, 1, 2, 2>>, <<1, 2, 1, 1, 2>>, <<2, 2, 2, 2, 2>>}
LongKinds == {AllExactRow, NearRow}

SeqsOver(kinds, lo, hi) == UNION {[1..n -> kinds] : n \in lo..hi}

Histories == SeqsOver(RowKinds, 0, MaxHist) \cup SeqsOver(LongKinds, MaxHist + 1, MaxLong)

\* The request bodies of /game/leaderboard/add a client c sends: a history, or
\* a body without userId, or one whose guesses is not an array.
AddBody(c, guesses) ==
    [pending |-> TRUE, userId |-> c, isArray |-> TRUE, guesses |-> guesses]
MalformedBodies(c) ==
    { [pending |-> TRUE, userId |-> "", isArray |-> TRUE, guesses |-> <<>>],
      [pending |-> TRUE, userId |-> c, isArray |-> FALSE, guesses |-> <<>>] }

\* Histories with values that are no classification code.
OddHistories ==
    { << <<0, 0, 0, 0, 7>> >>,
      << <<3, 3, 3, 3, 3>> >>,
      << <<0, 1, 2, -1, 5>>, <<1, 1, 9, 2, 2>> >>,
      << <<2, 2, 2, 2, 4>>, <<0, 0, 0, 0, 0>> >> }

\* n evaluations with four exact marks each, and the same followed by a solve.
RECURSIVE Repeat(_, _)
Repeat(row, n) == IF n = 0 THEN <<>> ELSE Append(Repeat(row, n - 1), row)
RankHistories ==
    {Repeat(NearRow, n) : n \in 0..MaxLong}
        \cup {Append(Repeat(NearRow, n), AllExactRow) : n \in 0..(MaxLong - 1)}

(***************************************************************************)
(* GET /game/check and GET /game/playGame.  The word provider answers; the *)
(* client may send the same request again.                                 *)
(***************************************************************************)
GameCheck ==
    /\ IF word = <<>>
       THEN /\ checkResp' = [status |-> 400, error |-> "Missing parameter word"]
            /\ UNCHANGED evalVars
       ELSE \E cw \in {cleanWord(word)} :
            IF ~cw.ok
            THEN /\ checkResp' = handleError(cw.error)
                 /\ UNCHANGED evalVars
            ELSE \E call \in {checkWord(cw.word, solution, FreshConsumed(sY))} :
                 /\ lastGuess' = cw.word
                 /\ sY' = call.sY
                 /\ result' = call.result
                 /\ prevResult' = result
                 /\ checkResp' = [status |-> 200, guess |-> cw.word,
                                  correct |-> (solution = cw.word),
                                  result |-> call.result]
                 /\ UNCHANGED <<solution, word>>
    /\ UNCHANGED <<playResp, slackResp, usersCol, raceVars, boardResp, addReq, addResp, leaderboard>>

\* prev is the parsed `guesses` parameter; a request without it, or with one
\* that is no two-dimensional array, is answered 400 before cleanWord runs
\* (lines 528-548) and is not among the inputs.
PlayGame(prev) ==
    /\ IF word = <<>>
       THEN /\ playResp' = [status |-> 400, error |-> "Missing parameter word"]
            /\ UNCHANGED evalVars
       ELSE \E cw \in {cleanWord(word)} :
            IF ~cw.ok
            THEN /\ playResp' = handleError(cw.error)
                 /\ UNCHANGED evalVars
            ELSE \E call \in {checkWord(cw.word, solution, FreshConsumed(sY))} :
                 /\ lastGuess' = cw.word
                 /\ sY' = call.sY
                 /\ result' = call.result
                 /\ prevResult' = result
                 /\ playResp' = [status |-> 200,
                                 guesses |-> Append(prev, call.result),
                                 currentGuess |-> call.result,
                                 isComplete |-> AllExact(call.result)]
                 /\ UNCHANGED <<solution, word>>
    /\ UNCHANGED <<checkResp, slackResp, usersCol, raceVars, boardResp, addReq, addResp, leaderboard>>

(***************************************************************************)
(* POST /slack-guess of user u with the guess `word`, as one step.         *)
(***************************************************************************)
\* userEntry?.guesses || [] and userEntry?.wordsTried || []
GuessesOf(entry) == IF entry.stored THEN entry.guesses ELSE <<>>

\* A variant that never finds the words tried before.
WordsTriedForgotten(entry) == <<>>

WordsTriedOf(entry) == IF entry.stored THEN entry.wordsTried ELSE <<>>

\* A variant that does not look at the length of the history.
CompletedSolvedOnly(guessesArr) ==
    /\ Len(guessesArr) > 0
    /\ AllExact(guessesArr[Len(guessesArr)])

\* Lines 235-236: the round of this history is over.
Completed(guessesArr) ==
    /\ Len(guessesArr) > 0
    /\ (AllExact(guessesArr[Len(guessesArr)]) \/ Len(guessesArr) >= 6)

\* Lines 298-305: which closing message the answer carries.
DoneMsg(win, used) ==
    IF win THEN "solved" ELSE IF used >= 6 THEN "used all guesses" ELSE "guess submitted"

\* A variant that takes only a win for terminal.
TerminalWinOnly(win, used) == win

\* Line 266: the round has reached a terminal state.
Terminal(win, used) == win \/ used >= 6

\* String.prototype.toUpperCase, one character at a time.
UpperOf ==
    [ch \in LowerLetters |-> UpperCase[CHOOSE i \in DOMAIN Alphabet : Alphabet[i] = ch]]
ToUpperCase(ch) == IF ch \in LowerLetters THEN UpperOf[ch] ELSE ch

\* Lines 277-296: one block per evaluation, the letters of the word tried
\* in upper case over the squares of the evaluation.
Blocks(wordsTried, guessesArr) ==
    [k \in DOMAIN guessesArr |->
        [letters |-> [i \in DOMAIN guessesArr[k] |->
                         IF k \in DOMAIN wordsTried /\ i \in DOMAIN wordsTried[k]
                         THEN ToUpperCase(wordsTried[k][i]) ELSE " "],
         squares |-> guessesArr[k]]]

\* Lines 298-315: the answer to an accepted guess.
InChannel(wordsTried, guessesArr, win) ==
    [status |-> 200, response_type |-> "in_channel",
     blocks |-> Blocks(wordsTried, guessesArr),
     done |-> DoneMsg(win, Len(guessesArr))]

SlackGuess(u) ==
    /\ IF u = "" \/ word = <<>>
       THEN /\ slackResp' = [status |-> 400, error |-> "Missing userId or guess"]
            /\ UNCHANGED <<evalVars, usersCol, leaderboard>>
       ELSE \E cw \in {cleanWord(word)} :
            IF ~cw.ok
            THEN /\ slackResp' = handleError(cw.error)
                 /\ UNCHANGED <<evalVars, usersCol, leaderboard>>
            ELSE IF cw.word \notin ValidWords
            THEN /\ slackResp' = [status |-> 400, error |-> "not a valid Wordle guess"]
                 /\ UNCHANGED <<evalVars, usersCol, leaderboard>>
            ELSE IF Completed(GuessesOf(usersCol[u]))
            THEN /\ slackResp' = [status |-> 200, response_type |-> "ephemeral",
                                  text |-> "Game already completed for today!"]
                 /\ UNCHANGED <<evalVars, usersCol, leaderboard>>
            ELSE IF \E k \in DOMAIN WordsTriedOf(usersCol[u]) :
                        WordsTriedOf(usersCol[u])[k] = cw.word
            THEN /\ slackResp' = [status |-> 200, response_type |-> "ephemeral",
                                  text |-> "You've already guessed it"]
                 /\ UNCHANGED <<evalVars, usersCol, leaderboard>>
            ELSE \E call \in {checkWord(cw.word, solution, FreshConsumed(sY))} :
                 \E guessesArr \in {Append(GuessesOf(usersCol[u]), call.result)} :
                 \E win \in {AllExact(call.result)} :
                 /\ lastGuess' = cw.word
                 /\ sY' = call.sY
                 /\ result' = call.result
                 /\ prevResult' = result
                 /\ usersCol' = [usersCol EXCEPT ![u] =
                        [stored |-> TRUE, userId |-> u, guesses |-> guessesArr,
                         wordsTried |-> Append(WordsTriedOf(usersCol[u]), cw.word)]]
                 /\ IF Terminal(win, Len(guessesArr))
                    THEN leaderboard' = [leaderboard EXCEPT ![u] =
                            [stored |-> TRUE, userId |-> u,
                             score |-> calculateScore(guessesArr),
                             guesses |-> AfterScore(guessesArr)]]
                    ELSE UNCHANGED leaderboard
                 /\ slackResp' = InChannel(Append(WordsTriedOf(usersCol[u]), cw.word),
                                           guessesArr, win)
                 /\ UNCHANGED <<solution, word>>
    /\ UNCHANGED <<checkResp, playResp, raceVars, boardResp, addReq, addResp>>

(***************************************************************************)
(* The handlers with their fetches.  GameCheck and SlackGuess above are    *)
(* the handlers when no timestamp is sent and both fetches are answered    *)
(* 200; here the request carries a timestamp and the other side answers    *)
(* as it likes.                                                            *)
(***************************************************************************)
\* GET /game/check: cleanWord (line 494) comes before getWord (line 496).
GameCheckAt(timestamp, res) ==
    \E gw \in {getWord(timestamp, res)} :
        IF word # <<>> /\ cleanWord(word).ok /\ ~gw.ok
        THEN /\ checkResp' = handleError(gw.error)
             /\ UNCHANGED <<evalVars, playResp, slackResp, usersCol, raceVars,
                            boardResp, addReq, addResp, leaderboard>>
        ELSE GameCheck

\* POST /slack-guess: cleanWord (line 222), getWord (line 223),
\* getValidWords (line 225).
SlackGuessAt(u, timestamp, res, listRes) ==
    \E gw \in {getWord(timestamp, res)} : \E gv \in {getValidWords(listRes)} :
        IF u # "" /\ word # <<>> /\ cleanWord(word).ok /\ (~gw.ok \/ ~gv.ok)
        THEN /\ slackResp' = handleError(IF ~gw.ok THEN gw.error ELSE gv.error)
             /\ UNCHANGED <<evalVars, checkResp, playResp, usersCol, raceVars,
                            boardResp, addReq, addResp, leaderboard>>
        ELSE SlackGuess(u)

\* No request to /game/leaderboard/add is in flight.
BoardIdle ==
    /\ addReq = [u \in Users |-> NoReq]
    /\ addResp = [u \in Users |-> NoResp]
    /\ boardResp = NoResp

\* No /slack-guess request is handled step by step.
RaceIdle ==
    /\ session = [s \in Sessions |-> IdleSession]
    /\ sends = 0

\* Both collections are empty.
EmptyCollections ==
    /\ usersCol = [u \in Users |-> NoEntry]
    /\ leaderboard = [u \in Users |-> NoEntry]

\* One client sends one word, any number of times, on one day.
Init ==
    /\ \E pair \in Pairs : solution = pair.solution /\ word = pair.word
    /\ lastGuess = <<>>
    /\ sY = [i \in 1..WordLen |-> FALSE]
    /\ result = <<>>
    /\ prevResult = <<>>
    /\ checkResp = NoResp
    /\ playResp = NoResp
    /\ slackResp = NoResp
    /\ BoardIdle
    /\ RaceIdle
    /\ EmptyCollections

Next ==
    \/ GameCheck
    \/ \E prev \in PlayInputs : PlayGame(prev)
    \/ SlackGuess(SlackUser)

Spec == Init /\ [][Next]_vars

(***************************************************************************)
(* POST /game/leaderboard/add, for the request of client c.                *)
(***************************************************************************)
LeaderboardAdd(c) ==
    /\ addReq[c].pending
    /\ \E body \in {addReq[c]} :
         IF body.userId = "" \/ ~body.isArray
         THEN /\ addResp' = [addResp EXCEPT ![c] =
                     [status |-> 400,
                      error |-> "Missing parameters. Required: userId, guesses (number[][])"]]
              /\ UNCHANGED leaderboard
         ELSE \E score \in {calculateScore(body.guesses)} :
              /\ leaderboard' = [leaderboard EXCEPT ![body.userId] =
                     [stored |-> TRUE, userId |-> body.userId,
                      score |-> score, guesses |-> AfterScore(body.guesses)]]
              /\ addResp' = [addResp EXCEPT ![c] =
                     [status |-> 200, message |-> "Score added/updated.",
                      userId |-> body.userId, score |-> score]]
    /\ addReq' = [addReq EXCEPT ![c].pending = FALSE]
    /\ UNCHANGED <<evalVars, respVars, usersCol, raceVars, boardResp>>

EvalIdle ==
    /\ solution = <<>>
    /\ word = <<>>
    /\ lastGuess = <<>>
    /\ sY = [i \in 1..WordLen |-> FALSE]
    /\ result = <<>>
    /\ prevResult = <<>>
    /\ checkResp = NoResp
    /\ playResp = NoResp
    /\ slackResp = NoResp
    /\ usersCol = [u \in Users |-> NoEntry]
    /\ RaceIdle
    /\ boardResp = NoResp

BoardNext == \E c \in Users : LeaderboardAdd(c)

\* One client posts one history.
ScoreInit ==
    /\ EvalIdle
    /\ \E body \in {AddBody("u1", h) : h \in Histories \cup OddHistories}
                        \cup MalformedBodies("u1") :
         addReq = [c \in Users |-> IF c = "u1" THEN body ELSE NoReq]
    /\ addResp = [c \in Users |-> NoResp]
    /\ leaderboard = [u \in Users |-> NoEntry]

ScoreSpec == ScoreInit /\ [][BoardNext]_vars

\* Histories whose entries are not all five marks long: the handler checks
\* Array.isArray(guesses) and nothing else (line 379).
RaggedRows == {<<>>, <<0>>, <<0, 0>>, <<2>>, <<0, 2, 2, 2, 2>>, AllExactRow}
RaggedHistories == SeqsOver(RaggedRows, 1, MaxRagged)

\* One client posts one history of such entries.
RaggedInit ==
    /\ EvalIdle
    /\ \E h \in RaggedHistories :
         addReq = [c \in Users |-> IF c = "u1" THEN AddBody("u1", h) ELSE NoReq]
    /\ addResp = [c \in Users |-> NoResp]
    /\ leaderboard = [u \in Users |-> NoEntry]

RaggedSpec == RaggedInit /\ [][BoardNext]_vars

\* Every client posts one history.
RankInit ==
    /\ EvalIdle
    /\ addReq \in [Users -> UNION {{AddBody(c, h) : h \in RankHistories} : c \in Users}]
    /\ \A c \in Users : addReq[c].userId = c
    /\ addResp = [c \in Users |-> NoResp]
    /\ leaderboard = [u \in Users |-> NoEntry]

RankSpec == RankInit /\ [][BoardNext]_vars

(***************************************************************************)
(* POST /slack-guess step by step.  The handler awaits the database three  *)
(* times: findOne on the users collection (line 231), updateOne on it      *)
(* (lines 259-263) and updateOne on the leaderboard (lines 268-272).  What *)
(* lies between two of them runs without interruption, so a request is     *)
(* three steps, and the steps of the requests in flight interleave.        *)
(***************************************************************************)
\* The k-th word of the list the sessions guess from: the letters of the
\* binary digits of k, so "baaaa", "abaaa", "bbaaa", ...
ListWord(k) ==
    [i \in 1..WordLen |-> IF (k \div (2 ^ (i - 1))) % 2 = 1 THEN "b" ELSE "a"]

\* What the k-th request may carry: the next word of the list, its first
\* word again, the secret, or a word the dictionary does not list.
Offers(k) == {ListWord(k), ListWord(1), Aback, Aaaaa}

\* Lines 218-257: the request arrives, is validated, reads the entry of
\* the user and, unless refused, evaluates the guess into its locals.
SlackRead(s, u, guess) ==
    /\ session[s].pc = "idle"
    /\ sends < MaxSends
    /\ sends' = sends + 1
    /\ IF u = "" \/ guess = <<>>
       THEN session' = [session EXCEPT ![s] = [IdleSession EXCEPT
                !.word = guess,
                !.resp = [status |-> 400, error |-> "Missing userId or guess"]]]
       ELSE \E cw \in {cleanWord(guess)} :
            IF ~cw.ok
            THEN session' = [session EXCEPT ![s] = [IdleSession EXCEPT
                     !.word = guess, !.resp = handleError(cw.error)]]
            ELSE IF cw.word \notin ValidWords
            THEN session' = [session EXCEPT ![s] = [IdleSession EXCEPT
                     !.word = cw.word,
                     !.resp = [status |-> 400, error |-> "not a valid Wordle guess"]]]
            ELSE IF Completed(GuessesOf(usersCol[u]))
            THEN session' = [session EXCEPT ![s] = [IdleSession EXCEPT
                     !.word = cw.word,
                     !.resp = [status |-> 200, response_type |-> "ephemeral",
                               text |-> "Game already completed for today!"]]]
            ELSE IF \E k \in DOMAIN WordsTriedOf(usersCol[u]) :
                        WordsTriedOf(usersCol[u])[k] = cw.word
            THEN session' = [session EXCEPT ![s] = [IdleSession EXCEPT
                     !.word = cw.word,
                     !.resp = [status |-> 200, response_type |-> "ephemeral",
                               text |-> "You've already guessed it"]]]
            ELSE \E call \in {checkWord(cw.word, solution, FreshConsumed(sY))} :
                 session' = [session EXCEPT ![s] =
                     [pc |-> "read", word |-> cw.word,
                      guessesArr |-> Append(GuessesOf(usersCol[u]), call.result),
                      wordsTried |-> Append(WordsTriedOf(usersCol[u]), cw.word),
                      result |-> call.result, resp |-> NoResp]]
    /\ UNCHANGED <<evalVars, respVars, usersCol, addReq, addResp, leaderboard, boardResp>>

\* Lines 259-263: the upsert of the users collection takes effect.
SlackWrite(s, u) ==
    /\ session[s].pc = "read"
    /\ usersCol' = [usersCol EXCEPT ![u] =
           [stored |-> TRUE, userId |-> u, guesses |-> session[s].guessesArr,
            wordsTried |-> session[s].wordsTried]]
    /\ session' = [session EXCEPT ![s].pc = "written"]
    /\ UNCHANGED <<evalVars, respVars, sends, addReq, addResp, leaderboard, boardResp>>

\* Lines 265-315: the leaderboard upsert of a terminal guess takes effect,
\* and the request is answered.
SlackBoard(s, u) ==
    /\ session[s].pc = "written"
    /\ \E win \in {AllExact(session[s].result)} :
         /\ IF Terminal(win, Len(session[s].guessesArr))
            THEN leaderboard' = [leaderboard EXCEPT ![u] =
                    [stored |-> TRUE, userId |-> u,
                     score |-> calculateScore(session[s].guessesArr),
                     guesses |-> AfterScore(session[s].guessesArr)]]
            ELSE UNCHANGED leaderboard
         /\ session' = [session EXCEPT ![s] = [IdleSession EXCEPT
                !.word = session[s].word,
                !.resp = InChannel(session[s].wordsTried, session[s].guessesArr, win)]]
    /\ UNCHANGED <<evalVars, respVars, usersCol, sends, addReq, addResp, boardResp>>

\* The secret is "aback"; nothing is stored yet.
RaceInit ==
    /\ solution = Aback
    /\ word = <<>>
    /\ lastGuess = <<>>
    /\ sY = [i \in 1..WordLen |-> FALSE]
    /\ result = <<>>
    /\ prevResult = <<>>
    /\ checkResp = NoResp
    /\ playResp = NoResp
    /\ slackResp = NoResp
    /\ BoardIdle
    /\ RaceIdle
    /\ EmptyCollections

RaceNext ==
    \E s \in Sessions :
        \/ \E guess \in Offers(sends + 1) : SlackRead(s, SlackUser, guess)
        \/ SlackWrite(s, SlackUser)
        \/ SlackBoard(s, SlackUser)

RaceSpec == RaceInit /\ [][RaceNext]_vars

(***************************************************************************)
(* POST /slack-guess, one request after the other: a single client sends   *)
(* its next request when the last one is answered.  The requests carry     *)
(* what the handler refuses as well: no userId, no guess, a guess that is  *)
(* not five letters, a word the dictionary does not list, a word tried     *)
(* before.                                                                 *)
(***************************************************************************)
\* The secrets of the day.
SeqSecrets == {Aback, ListWord(2), <<"b", "b", "a", "a", "b">>}

\* What the k-th request may carry as its guess.
SeqOffers(k) == Offers(k) \cup {<<>>, <<"a", "b">>, <<"a", "b", "1", "a", "b">>}

\* The userId of a request: the user's, or none.
SeqUserIds == {SlackUser, ""}

SeqSession == "s1"

SeqInit ==
    /\ solution \in SeqSecrets
    /\ word = <<>>
    /\ lastGuess = <<>>
    /\ sY = [i \in 1..WordLen |-> FALSE]
    /\ result = <<>>
    /\ prevResult = <<>>
    /\ checkResp = NoResp
    /\ playResp = NoResp
    /\ slackResp = NoResp
    /\ BoardIdle
    /\ RaceIdle
    /\ EmptyCollections

SeqNext ==
    \/ \E u \in SeqUserIds : \E guess \in SeqOffers(sends + 1) :
           SlackRead(SeqSession, u, guess)
    \/ SlackWrite(SeqSession, SlackUser)
    \/ SlackBoard(SeqSession, SlackUser)

SeqSpec == SeqInit /\ [][SeqNext]_vars

(***************************************************************************)
(* Requests while the other side fails.                                    *)
(***************************************************************************)
\* The words the requests carry: two that pass cleanWord and three that
\* do not.
FetchWords == {Aback, ListWord(1), <<>>, <<"a", "b">>, <<"a", "b", "1", "a", "b">>}

FetchInit ==
    /\ solution = Aback
    /\ word \in FetchWords
    /\ lastGuess = <<>>
    /\ sY = [i \in 1..WordLen |-> FALSE]
    /\ result = <<>>
    /\ prevResult = <<>>
    /\ checkResp = NoResp
    /\ playResp = NoResp
    /\ slackResp = NoResp
    /\ BoardIdle
    /\ RaceIdle
    /\ EmptyCollections

FetchNext ==
    \/ \E timestamp \in QueryTimestamps : \E res \in Responses :
           GameCheckAt(timestamp, res)
    \/ \E timestamp \in Timestamps : \E res, listRes \in Responses :
           SlackGuessAt(SlackUser, timestamp, res, listRes)

FetchSpec == FetchInit /\ [][FetchNext]_vars

(***************************************************************************)
(* The leaderboard record of a user over several requests: the clients     *)
(* post histories to /game/leaderboard/add again and again, and the user   *)
(* of /slack-guess plays.                                                  *)
(***************************************************************************)
\* The histories the clients post.
PostHistories == {<<AllExactRow>>, <<NearRow, NearRow>>, <<NearRow, AllExactRow>>}

\* Client c sends another request to /game/leaderboard/add.
AddSend(c, h) ==
    /\ ~addReq[c].pending
    /\ addReq' = [addReq EXCEPT ![c] = AddBody(c, h)]
    /\ UNCHANGED <<evalVars, respVars, usersCol, raceVars, boardResp, addResp, leaderboard>>

\* The secret is "aback"; the user of /slack-guess guesses it or misses.
UpdateInit ==
    /\ solution = Aback
    /\ word \in {Aback, ListWord(1), ListWord(2)}
    /\ lastGuess = <<>>
    /\ sY = [i \in 1..WordLen |-> FALSE]
    /\ result = <<>>
    /\ prevResult = <<>>
    /\ checkResp = NoResp
    /\ playResp = NoResp
    /\ slackResp = NoResp
    /\ BoardIdle
    /\ RaceIdle
    /\ EmptyCollections

UpdateNext ==
    \/ SlackGuess(SlackUser)
    \/ \E c \in Users : LeaderboardAdd(c)
    \/ \E c \in Users : \E h \in PostHistories : AddSend(c, h)

UpdateSpec == UpdateInit /\ [][UpdateNext]_vars

(***************************************************************************)
(* The guess endpoints when the word provider answers with a solution of   *)
(* any shape: getWord hands on what the provider's JSON holds (lines       *)
(* 119-122), and the handlers lower-case it (lines 250, 496, 552).         *)
(***************************************************************************)
\* Solutions as the handlers hold them after toLowerCase: "aback", and
\* texts too short, too long, with a blank, with a digit.
Secrets ==
    { Aback,
      <<"a", "b", "c">>,
      <<"a", "b", "a", "c", "k", "s">>,
      <<"a", "b", " ", "c", "k">>,
      <<"a", "b", "1", "c", "k">> }

SecretInit ==
    /\ solution \in Secrets
    /\ word \in Words \cup RawWords
    /\ lastGuess = <<>>
    /\ sY = [i \in 1..WordLen |-> FALSE]
    /\ result = <<>>
    /\ prevResult = <<>>
    /\ checkResp = NoResp
    /\ playResp = NoResp
    /\ slackResp = NoResp
    /\ BoardIdle
    /\ RaceIdle
    /\ EmptyCollections

SecretSpec == SecretInit /\ [][Next]_vars

(***************************************************************************)
(* The leaderboard over two dates: POST /game/leaderboard/add and          *)
(* GET /game/leaderboard/viewAll with a timestamp of the form yyyy-mm-dd,  *)
(* which getWord takes for the date as it stands (lines 82-83).            *)
(***************************************************************************)
Today == "2024-06-02"
Yesterday == "2024-06-01"
Dates == {Today, Yesterday}
ViewUsers == {"v1", "v2", "v3", "v4", "v5", "v6"}

\* The records there can be: one per user today, one of "v1" yesterday.
ViewKeys == (ViewUsers \X {Today}) \cup {<<"v1", Yesterday>>}

\* A history first solved on guess n.
SolvedOn(n) == Append(Repeat(NearRow, n - 1), AllExactRow)

\* The histories each user posts: wins on guess 1 to 5 that score 1000 down
\* to 600, with two ties between histories of different lengths ("v1" and
\* "v2" at 1000, "v5" and "v6" at 600), and an unsolved history.
ViewHistories ==
    [u \in ViewUsers |->
        CASE u = "v1" -> {SolvedOn(1)}
          [] u = "v2" -> {Append(SolvedOn(1), NearRow), SolvedOn(2)}
          [] u = "v3" -> {SolvedOn(3)}
          [] u = "v4" -> {SolvedOn(4)}
          [] u = "v5" -> {SolvedOn(5)}
          [] u = "v6" -> {Append(SolvedOn(5), NearRow), <<NearRow>>}]

\* limit(5), line 332.
ViewLimit == 5

\* POST /game/leaderboard/add of user u with timestamp date and history h.
LeaderboardAddOn(u, date, h) ==
    /\ \E score \in {calculateScore(h)} :
         /\ leaderboard' = [leaderboard EXCEPT ![<<u, date>>] =
                [stored |-> TRUE, userId |-> u, date |-> date,
                 score |-> score, guesses |-> AfterScore(h)]]
         /\ boardResp' = [status |-> 200, message |-> "Score added/updated.",
                          userId |-> u, date |-> date, score |-> score]
    /\ UNCHANGED <<evalVars, respVars, usersCol, raceVars, addReq, addResp>>

\* collection.find({ date }): the records of the date.
Find(date) ==
    {leaderboard[k] : k \in {x \in DOMAIN leaderboard :
                                 leaderboard[x].stored /\ leaderboard[x].date = date}}

\* A variant that sorts by ascending score.
RECURSIVE SortLimitAscending(_, _)
SortLimitAscending(docs, n) ==
    IF n = 0 \/ docs = {} THEN {<<>>}
    ELSE UNION {{<<d>> \o rest : rest \in SortLimitAscending(docs \ {d}, n - 1)} :
                   d \in {x \in docs : \A y \in docs : x.score <= y.score}}

\* .sort({ score: -1 }).limit(n).toArray(): the arrays the database may
\* return; it is free in the order of records of equal score.
RECURSIVE SortLimit(_, _)
SortLimit(docs, n) ==
    IF n = 0 \/ docs = {} THEN {<<>>}
    ELSE UNION {{<<d>> \o rest : rest \in SortLimit(docs \ {d}, n - 1)} :
                   d \in {x \in docs : \A y \in docs : x.score >= y.score}}

\* GET /game/leaderboard/viewAll with timestamp date.
ViewAll(date) ==
    /\ \E scores \in SortLimit(Find(date), ViewLimit) :
         boardResp' = [status |-> 200, date |-> date,
                       leaderboard |-> [i \in DOMAIN scores |->
                           [userId |-> scores[i].userId, score |-> scores[i].score,
                            guessesCount |-> Len(scores[i].guesses)]]]
    /\ UNCHANGED <<evalVars, respVars, usersCol, raceVars, addReq, addResp, leaderboard>>

ViewInit ==
    /\ EvalIdle
    /\ addReq = [u \in Users |-> NoReq]
    /\ addResp = [u \in Users |-> NoResp]
    /\ leaderboard = [k \in ViewKeys |-> NoEntry]

ViewNext ==
    \/ \E k \in ViewKeys : \E h \in ViewHistories[k[1]] : LeaderboardAddOn(k[1], k[2], h)
    \/ \E date \in Dates : ViewAll(date)

ViewSpec == ViewInit /\ [][ViewNext]_vars

(***************************************************************************)
(* Properties of the evaluator, checked under Spec.                        *)
(***************************************************************************)
Positions == 1..WordLen

\* The guess the handlers evaluate: the cleaned `word` parameter.
Guess == lastGuess

\* A checkWord call has returned.
Evaluated == result # <<>>

InGuess(c) == {i \in Positions : Guess[i] = c}
InSecret(c) == {j \in Positions : solution[j] = c}
Credited(c) == {i \in InGuess(c) : result[i] \in {0, 1}}

\* C1: for every secret, guess and letter c, the guess positions holding c
\* that checkWord marks exact or present are at most as many as the
\* occurrences of c in the secret.
C1_NoOverCredit ==
    Evaluated =>
        \A c \in {Guess[i] : i \in Positions} :
            Cardinality(Credited(c)) <= Cardinality(InSecret(c))

\* A letter the secret holds, that the guess holds more often, and of which
\* some occurrence in the guess is refused credit.
C1_Witness ==
    /\ Evaluated
    /\ \E c \in {Guess[i] : i \in Positions} :
          /\ InSecret(c) # {}
          /\ Cardinality(InGuess(c)) > Cardinality(InSecret(c))
          /\ Cardinality(Credited(c)) = Cardinality(InSecret(c))

\* What pass 1 alone returns for the guess and the secret.
AfterPass1 ==
    Pass1(Guess, solution, [result |-> <<>>, sY |-> FreshConsumed(sY)], 1).result

\* C2: checkWord marks position i exact if and only if guess[i] = secret[i];
\* pass 2 leaves every exact mark of pass 1 exact and adds none.
C2_ExactIffEqual ==
    Evaluated =>
        /\ \A i \in Positions : (result[i] = 0) <=> (Guess[i] = solution[i])
        /\ \A i \in Positions : (result[i] = 0) <=> (AfterPass1[i] = 0)

\* An exact position whose letter the secret holds once more, unmatched, and
\* a present mark elsewhere: pass 2 had a match to offer the exact position.
C2_Witness ==
    /\ Evaluated
    /\ \E i, j \in Positions :
          /\ result[i] = 0
          /\ j # i
          /\ solution[j] = Guess[i]
          /\ Guess[j] # solution[j]
    /\ \E i \in Positions : result[i] = 1

\* The entry /slack-guess stored for its user, and the answer that went with it.
SlackEntry == usersCol[SlackUser]
SlackAccepted == SlackEntry.stored

\* C3: checkWord returns five exact marks if and only if the guess equals
\* the secret, so `correct` of /game/check (solution === word), `isComplete`
\* of /game/playGame and `win` of /slack-guess (result all 0, which decides
\* the closing message and, on a first guess, the leaderboard write) are each
\* equal to it and to each other.
C3_WinIffEqual ==
    /\ Evaluated => (AllExact(result) <=> Guess = solution)
    /\ checkResp.status = 200 =>
          /\ checkResp.correct = AllExact(checkResp.result)
          /\ checkResp.correct = (checkResp.guess = solution)
    /\ playResp.status = 200 =>
          /\ playResp.isComplete = (Guess = solution)
          /\ playResp.isComplete = AllExact(playResp.currentGuess)
    /\ SlackAccepted =>
          /\ leaderboard[SlackUser].stored = (Guess = solution)
          /\ leaderboard[SlackUser].stored = AllExact(SlackEntry.guesses[1])
    /\ (slackResp.status = 200 /\ slackResp.response_type = "in_channel") =>
          (slackResp.done = "solved") = (Guess = solution)
    /\ (checkResp.status = 200 /\ playResp.status = 200) =>
          checkResp.correct = playResp.isComplete
    /\ (checkResp.status = 200 /\ SlackAccepted) =>
          checkResp.correct = leaderboard[SlackUser].stored

\* The three endpoints have answered the guess "crane" for the secret "crane".
C3_Witness ==
    /\ solution = Crane
    /\ checkResp.status = 200 /\ checkResp.correct
    /\ playResp.status = 200 /\ playResp.isComplete
    /\ slackResp.status = 200 /\ slackResp.response_type = "in_channel"
    /\ slackResp.done = "solved"
    /\ leaderboard[SlackUser].stored /\ leaderboard[SlackUser].score = 1000
    /\ result = <<0, 0, 0, 0, 0>>

\* C4: when the guess matches every occurrence of a letter in the secret
\* exactly, every other occurrence of that letter in the guess is absent;
\* secret "aback" with guess "aaaaa" gives exact, absent, exact, absent, absent.
C4_SurplusAbsent ==
    Evaluated =>
        /\ \A c \in {Guess[i] : i \in Positions} :
              (\A j \in InSecret(c) : Guess[j] = c) =>
                  \A i \in InGuess(c) \ InSecret(c) : result[i] = 2
        /\ (solution = Aback /\ Guess = Aaaaa) => result = <<0, 2, 0, 2, 2>>

\* "aaaaa" has been evaluated against "aback".
C4_Witness ==
    /\ solution = Aback
    /\ word = Aaaaa
    /\ result = <<0, 2, 0, 2, 2>>

\* C5: evaluating the same guess against the same secret again, with the
\* consumed array each handler allocates, returns the array the evaluation
\* before returned; the three endpoints return that array.
C5_Deterministic ==
    /\ prevResult # <<>> => result = prevResult
    /\ checkResp.status = 200 => checkResp.result = result
    /\ playResp.status = 200 => playResp.currentGuess = result
    /\ SlackAccepted => SlackEntry.guesses = <<result>>

\* The three endpoints have evaluated a guess whose result has a present
\* mark, which rests on a secret position being unconsumed when pass 2 starts.
C5_Witness ==
    /\ prevResult # <<>>
    /\ checkResp.status = 200 /\ playResp.status = 200 /\ SlackAccepted
    /\ \E i \in Positions : result[i] = 1
    /\ \E j \in Positions : sY[j]

(***************************************************************************)
(* Properties of the score, checked under ScoreSpec and RankSpec.  They    *)
(* describe the stored histories without the operators calculateScore is   *)
(* made of.                                                                *)
(***************************************************************************)
Stored == {u \in Users : leaderboard[u].stored}

\* The marks of value v anywhere in history h.
Marks(h, v) == {<<n, k>> \in (DOMAIN h) \X Positions : h[n][k] = v}

\* The 1-based indices of the evaluations of h that are five exact marks.
Solves(h) == {n \in DOMAIN h : h[n] = <<0, 0, 0, 0, 0>>}
FirstSolve(h) == CHOOSE n \in Solves(h) : \A m \in Solves(h) : n <= m

C7_SolvedTiers ==
    \A u \in Stored :
        LET h == leaderboard[u].guesses IN
        (Solves(h) # {} /\ FirstSolve(h) <= 6) =>
            leaderboard[u].score = <<1000, 900, 800, 700, 600, 500>>[FirstSolve(h)]

\* A history solved on guess 3 after two evaluations with exact marks, with a
\* second solve and another evaluation after it.
C7_Witness ==
    \E u \in Stored :
        LET h == leaderboard[u].guesses IN
        /\ Len(h) = 6
        /\ Solves(h) # {}
        /\ FirstSolve(h) = 3
        /\ Cardinality(Solves(h)) = 2
        /\ h[1] # h[2]
        /\ h[6] # <<0, 0, 0, 0, 0>>
        /\ leaderboard[u].score = 800

\* C8: a history first solved on guess n > 6 scores 500 - (n - 6) * 50, which
\* is 400 for n = 8, and of two solved histories the one solved earlier scores
\* strictly more, also across the boundary between guess 6 and guess 7.
C8_OverflowDecreasing ==
    \A u \in Stored :
        LET h == leaderboard[u].guesses IN
        Solves(h) # {} =>
            /\ FirstSolve(h) > 6 => leaderboard[u].score = 500 - (FirstSolve(h) - 6) * 50
            /\ FirstSolve(h) = 8 => leaderboard[u].score = 400
            /\ \A w \in Stored :
                  LET g == leaderboard[w].guesses IN
                  (Solves(g) # {} /\ FirstSolve(h) < FirstSolve(g)) =>
                      leaderboard[u].score > leaderboard[w].score

\* Two stored histories, solved on guess 6 and on guess 7, and 500 and 450.
C8_Witness ==
    \E u, w \in Stored :
        /\ Solves(leaderboard[u].guesses) # {}
        /\ Solves(leaderboard[w].guesses) # {}
        /\ FirstSolve(leaderboard[u].guesses) = 6
        /\ FirstSolve(leaderboard[w].guesses) = 7
        /\ leaderboard[u].score = 500
        /\ leaderboard[w].score = 450

\* C9: a history without an all-exact evaluation and with an exact mark
\* scores min(400, 10 * exact marks + 4 * present marks), counted over the
\* whole history, so never more than 400.
C9_PartialCredit ==
    \A u \in Stored :
        LET h == leaderboard[u].guesses
            partial == 10 * Cardinality(Marks(h, 0)) + 4 * Cardinality(Marks(h, 1))
        IN  (Solves(h) = {} /\ Marks(h, 0) # {}) =>
                /\ leaderboard[u].score = IF partial < 400 THEN partial ELSE 400
                /\ leaderboard[u].score <= 400

\* An unsolved history with at least 50 exact marks: the cap binds.
C9_Witness ==
    \E u \in Stored :
        LET h == leaderboard[u].guesses IN
        /\ Solves(h) = {}
        /\ Cardinality(Marks(h, 0)) >= 50
        /\ leaderboard[u].score = 400

\* C10: the score of a never-solved history never exceeds the score of a
\* solved history.
C10_UnsolvedBelowSolved ==
    \A u, w \in Stored :
        (Solves(leaderboard[u].guesses) = {} /\ Solves(leaderboard[w].guesses) # {}) =>
            leaderboard[u].score <= leaderboard[w].score

\* C11: the score stored and returned for a history of length-5
\* classification arrays, of any length, is a non-negative integer.
C11_ScoreNonNegative ==
    \A u \in Stored :
        /\ leaderboard[u].score \in Nat
        /\ addResp[u].status = 200 => addResp[u].score \in Nat

Persisted == IF usersCol[SlackUser].stored THEN usersCol[SlackUser].guesses ELSE <<>>
PersistedWords ==
    IF usersCol[SlackUser].stored THEN usersCol[SlackUser].wordsTried ELSE <<>>

\* C13: in every reachable state, whatever the interleaving of the
\* /slack-guess requests, the history persisted for the user and the date
\* (and the copy on the leaderboard) has at most 6 evaluations.
C13_AtMostSix ==
    /\ Len(Persisted) <= 6
    /\ Len(PersistedWords) <= 6
    /\ leaderboard[SlackUser].stored => Len(leaderboard[SlackUser].guesses) <= 6

\* A history of 6 is persisted while another request, which read the
\* history of 5 before that write, still has its own write to do.
C13_Witness ==
    /\ Len(Persisted) = 6
    /\ \E s \in Sessions :
          /\ session[s].pc = "read"
          /\ Len(session[s].guessesArr) = 6
          /\ session[s].guessesArr # Persisted

\* C14: once the history persisted for the user has been solved or
\* exhausted, to which the leaderboard record written after it testifies, no
\* /slack-guess request that arrives later is accepted, and a request that
\* is refused leaves both collections as they are.
C14_RoundStaysOver ==
    [][leaderboard[SlackUser].stored =>
          \A s \in Sessions :
              session[s].pc = "idle" =>
                  /\ session'[s].pc = "idle"
                  /\ session'[s] # session[s] =>
                        (usersCol' = usersCol /\ leaderboard' = leaderboard)]_vars

\* What the scoring rules give a history that ends a round: a win on its
\* last evaluation, or six evaluations without one.
RoundScore(h) ==
    IF h[Len(h)] = <<0, 0, 0, 0, 0>> THEN 1100 - 100 * Len(h)
    ELSE IF Marks(h, 0) = {} THEN 0
    ELSE LET partial == 10 * Cardinality(Marks(h, 0)) + 4 * Cardinality(Marks(h, 1))
         IN  IF partial < 400 THEN partial ELSE 400

AcceptedGuess(s) ==
    /\ session[s].pc = "idle"
    /\ session[s].resp.status = 200
    /\ session[s].resp.response_type = "in_channel"

\* C16: whatever the interleaving, the persisted history never loses an
\* entry it held, and when two requests of the user with distinct words
\* have both been accepted, both words are among the persisted tried words.
C16_NoLostGuess ==
    [][/\ Len(Persisted) <= Len(Persisted')
       /\ SubSeq(Persisted', 1, Len(Persisted)) = Persisted
       /\ \A s, t \in Sessions :
             (AcceptedGuess(s)' /\ AcceptedGuess(t)' /\ session'[s].word # session'[t].word) =>
                 \A w \in {session'[s].word, session'[t].word} :
                     \E k \in DOMAIN PersistedWords' : PersistedWords'[k] = w]_vars

(***************************************************************************)
(* Properties of the leaderboard record, checked under UpdateSpec.         *)
(***************************************************************************)
\* What the scoring rules give history h.
RuleScore(h) ==
    IF Marks(h, 0) = {} THEN 0
    ELSE IF Solves(h) # {}
    THEN (IF FirstSolve(h) <= 6 THEN 1100 - 100 * FirstSolve(h)
          ELSE 500 - (FirstSolve(h) - 6) * 50)
    ELSE LET partial == 10 * Cardinality(Marks(h, 0)) + 4 * Cardinality(Marks(h, 1))
         IN  IF partial < 400 THEN partial ELSE 400

\* C17, as first stated: once a score is stored for a user and date, no
\* later request changes it to a different value.
C17_ScoreNeverChanges ==
    [][\A u \in Users :
          leaderboard[u].stored =>
              /\ leaderboard'[u].stored
              /\ leaderboard'[u].score = leaderboard[u].score]_vars

\* C17, as it holds: a request may replace the record of a user and date,
\* and the score of a record is always the score of the history stored in
\* the same record.
C17_ScoreOfStoredHistory ==
    \A u \in Stored : leaderboard[u].score = RuleScore(leaderboard[u].guesses)

\* The record holds another history and another score than those the
\* client was answered with before.
C17_Witness ==
    \E u \in Stored :
        /\ addResp[u].status = 200
        /\ ~addReq[u].pending
        /\ addReq[u].guesses = <<NearRow, NearRow>>
        /\ addResp[u].score = 88
        /\ leaderboard[u].guesses # addReq[u].guesses
        /\ leaderboard[u].score = 1000

(***************************************************************************)
(* Properties of the validation, checked under SecretSpec and ScoreSpec.   *)
(***************************************************************************)
\* Exactly 5 lower-case letters.
WellFormed(w) == Len(w) = 5 /\ \A i \in DOMAIN w : w[i] \in LowerLetters

\* C18: an endpoint has checkWord evaluate a guess against a secret only
\* when both are exactly 5 lower-case letters; with a guess or a secret
\* that is not, the request is answered with an error.
C18_ValidatedBeforeCheckWord ==
    /\ Evaluated => (WellFormed(lastGuess) /\ WellFormed(solution))
    /\ ~WellFormed(solution) =>
          /\ checkResp.status # 200
          /\ playResp.status # 200
          /\ slackResp.status # 200

\* A value of history h that is none of 0, 1, 2.
HasBadValue(h) == \E n \in DOMAIN h : \E k \in DOMAIN h[n] : h[n][k] \notin {0, 1, 2}

\* C19: a posted history with a value outside {0, 1, 2} is rejected: the
\* request is answered with an error and no record is stored.
C19_BadValueRejected ==
    \A c \in Users :
        (addResp[c].status # 0 /\ HasBadValue(addReq[c].guesses)) =>
            /\ addResp[c].status = 400
            /\ ~leaderboard[c].stored

(***************************************************************************)
(* Properties of the leaderboard view, checked under ViewSpec.             *)
(***************************************************************************)
\* The latest response is one of /game/leaderboard/viewAll.
Viewed == "leaderboard" \in DOMAIN boardResp

\* The keys of the records stored for the date of the latest response.
OnDate == {k \in DOMAIN leaderboard : leaderboard[k].stored /\ k[2] = boardResp.date}

\* C20: /game/leaderboard/viewAll returns at most 5 records, each a record
\* stored for the requested date, no record twice, in non-increasing score
\* order, and no record of that date that is left out has a strictly higher
\* score than a returned one; the order follows the score alone.
C20_TopFive ==
    Viewed =>
        LET rows == boardResp.leaderboard
            Returned == {<<rows[i].userId, boardResp.date>> : i \in DOMAIN rows}
        IN  /\ Len(rows) <= 5
            /\ Len(rows) = (IF Cardinality(OnDate) < 5 THEN Cardinality(OnDate) ELSE 5)
            /\ Returned \subseteq OnDate
            /\ Cardinality(Returned) = Len(rows)
            /\ \A i \in DOMAIN rows :
                  LET rec == leaderboard[<<rows[i].userId, boardResp.date>>]
                  IN  /\ rows[i].score = rec.score
                      /\ rows[i].guessesCount = Len(rec.guesses)
            /\ \A i, j \in DOMAIN rows : i < j => rows[i].score >= rows[j].score
            /\ \A k \in OnDate \ Returned :
                  \A i \in DOMAIN rows : leaderboard[k].score <= rows[i].score

\* Six records today and one of yesterday; the view of today returns 5,
\* led by two records of score 1000 of which the one with more guesses
\* comes first, and leaves out one of the two records of score 600.
C20_Witness ==
    /\ Viewed
    /\ boardResp.date = Today
    /\ Cardinality(OnDate) = 6
    /\ leaderboard[<<"v1", Yesterday>>].stored
    /\ Len(boardResp.leaderboard) = 5
    /\ boardResp.leaderboard[1].score = 1000
    /\ boardResp.leaderboard[2].score = 1000
    /\ boardResp.leaderboard[1].guessesCount = 2
    /\ boardResp.leaderboard[2].guessesCount = 1
    /\ boardResp.leaderboard[5].score = 600
    /\ \E k \in OnDate :
          /\ leaderboard[k].score = 600
          /\ \A i \in DOMAIN boardResp.leaderboard : boardResp.leaderboard[i].userId # k[1]

(***************************************************************************)
(* The order of pass 2.                                                    *)
(***************************************************************************)
\* The guess positions holding c that pass 1 did not mark exact, and the
\* secret positions holding c that pass 1 did not match exactly.
NonExactGuess(c) == {i \in InGuess(c) : solution[i] # c}
FreeSecret(c) == {j \in InSecret(c) : Guess[j] # c}

Min(a, b) == IF a < b THEN a ELSE b

\* The letters that occur in the guess or in the secret.
Occurring == {Guess[i] : i \in Positions} \cup {solution[j] : j \in Positions}

\* How many positions of set S lie left of position p.
LeftOf(S, p) == Cardinality({q \in S : q < p})

\* C21: pass 2 handles the non-exact guess positions in increasing order and
\* gives each the leftmost unconsumed secret position holding its letter:
\* for every letter c, with k the smaller of the number of non-exact guess
\* positions holding c and the number of secret positions holding c that are
\* not matched exactly, the leftmost k non-exact guess positions holding c
\* are present and the later ones absent, and the secret positions consumed
\* for them are the leftmost k that were free.
C21_LeftmostFirst ==
    Evaluated =>
        \A c \in Occurring :
            LET k == Min(Cardinality(NonExactGuess(c)), Cardinality(FreeSecret(c)))
            IN  /\ \A i \in NonExactGuess(c) :
                      result[i] = (IF LeftOf(NonExactGuess(c), i) < k THEN 1 ELSE 2)
                /\ \A j \in FreeSecret(c) :
                      sY[j] = (LeftOf(FreeSecret(c), j) < k)

\* A letter with two non-exact positions in the guess and one free position
\* in the secret (the first is present, the second absent), and a letter
\* with one non-exact position in the guess and two free positions in the
\* secret (only the left one is consumed).
C21_Witness ==
    /\ Evaluated
    /\ \E c \in Occurring :
          /\ Cardinality(NonExactGuess(c)) >= 2
          /\ Cardinality(FreeSecret(c)) = 1
          /\ \E i, i2 \in NonExactGuess(c) : i < i2 /\ result[i] = 1 /\ result[i2] = 2
    /\ \E d \in Occurring :
          /\ Cardinality(NonExactGuess(d)) = 1
          /\ Cardinality(FreeSecret(d)) >= 2
          /\ \E j, j2 \in FreeSecret(d) : j < j2 /\ sY[j] /\ ~sY[j2]

(***************************************************************************)
(* Full credit.                                                            *)
(***************************************************************************)
\* The secret positions consumed by the call, and the guess positions it
\* marked exact or present.
Consumed == {j \in Positions : sY[j]}
Marked == {i \in Positions : result[i] \in {0, 1}}

\* C23: checkWord never under-credits: for every letter c the guess positions
\* holding c that are marked exact or present are exactly as many as the
\* smaller of the occurrences of c in the guess and in the secret, and the
\* consumed secret positions after the call are as many as the exact and
\* present marks together.
C23_FullCredit ==
    Evaluated =>
        /\ \A c \in Occurring :
              Cardinality(Credited(c)) =
                  Min(Cardinality(InGuess(c)), Cardinality(InSecret(c)))
        /\ Cardinality(Consumed) = Cardinality(Marked)

\* A guess with a present mark in which one letter is credited as often as
\* the guess holds it (the secret holds more) and another as often as the
\* secret holds it (the guess holds more).
C23_Witness ==
    /\ Evaluated
    /\ \E i \in Positions : result[i] = 1
    /\ \E c, d \in Occurring :
          /\ 0 < Cardinality(InGuess(c))
          /\ Cardinality(InGuess(c)) < Cardinality(InSecret(c))
          /\ Cardinality(Credited(c)) = Cardinality(InGuess(c))
          /\ 0 < Cardinality(InSecret(d))
          /\ Cardinality(InSecret(d)) < Cardinality(InGuess(d))
          /\ Cardinality(Credited(d)) = Cardinality(InSecret(d))
    /\ Cardinality(Consumed) = Cardinality(Marked)
    /\ Cardinality(Marked) < WordLen

(***************************************************************************)
(* The reach of the overflow branch.                                       *)
(***************************************************************************)
\* History h takes calculateScore past the gate of line 199 into the
\* default branch of the switch, line 209.
TakesDefault(h) == HasAnyGreen(h, 1) /\ FindIndex(h, 1) + 1 > 6

\* C22: the overflow branch is dead code: every history an endpoint hands to
\* calculateScore has at most 6 entries, so no scored history reaches the
\* default branch.
C22_OverflowDead ==
    \A u \in Stored :
        /\ Len(leaderboard[u].guesses) <= 6
        /\ ~TakesDefault(leaderboard[u].guesses)

(***************************************************************************)
(* Refused requests of /slack-guess.                                       *)
(***************************************************************************)
\* Answer r refuses the request: a 400, or the ephemeral answers of lines
\* 237-241 and 244-248.
Refusal(r) == r.status = 400 \/ (r.status = 200 /\ r.response_type = "ephemeral")

\* In this step a request arrives at session s and is answered at once,
\* before the handler's first write.
RefusedStep(s) ==
    /\ session[s].pc = "idle"
    /\ sends' = sends + 1
    /\ session'[s].pc = "idle"

\* The list of words tried has no word twice and one word per evaluation.
TriedMatchesHistory ==
    /\ Len(PersistedWords) = Len(Persisted)
    /\ \A i, j \in DOMAIN PersistedWords :
          i # j => PersistedWords[i] # PersistedWords[j]

\* C24: a /slack-guess request that is refused (no userId or guess, not five
\* letters, not in the dictionary, tried before, round over) consumes no
\* guess: it is answered with a refusal and leaves the users collection and
\* the leaderboard as they were; and with the requests sent one after the
\* other the list of words tried never holds a word twice and is as long as
\* the history of evaluations.
C24_RefusedConsumesNothing ==
    [][ /\ RefusedStep(SeqSession) =>
              /\ Refusal(session'[SeqSession].resp)
              /\ usersCol' = usersCol
              /\ leaderboard' = leaderboard
        /\ TriedMatchesHistory' ]_vars

\* Two guesses are persisted, and the request just answered was refused
\* because its word was tried before.
C24_Witness ==
    /\ Len(Persisted) = 2
    /\ Len(PersistedWords) = 2
    /\ session[SeqSession].pc = "idle"
    /\ session[SeqSession].resp.status = 200
    /\ session[SeqSession].resp.response_type = "ephemeral"
    /\ session[SeqSession].resp.text = "You've already guessed it"
    /\ ~leaderboard[SlackUser].stored

(***************************************************************************)
(* The leaderboard record against the persisted history.                   *)
(***************************************************************************)
\* History h is solved or has 6 entries.
TerminalHistory(h) == Solves(h) # {} \/ Len(h) >= 6

\* C25: whenever /slack-guess has written a leaderboard record for the user
\* and the date, the history persisted for them is terminal and the record
\* holds that history and its score, in every reachable state and under
\* every interleaving of the requests.
C25_RecordMatchesHistory ==
    leaderboard[SlackUser].stored =>
        /\ TerminalHistory(Persisted)
        /\ leaderboard[SlackUser].guesses = Persisted
        /\ leaderboard[SlackUser].score = calculateScore(Persisted)

(***************************************************************************)
(* The partial credit of the histories /slack-guess builds.                *)
(***************************************************************************)
\* The number of marks of value v in evaluation r.
InRow(r, v) == Cardinality({i \in DOMAIN r : r[i] = v})

\* The partial credit of history h before the cap.
Credit(h) == 10 * Cardinality(Marks(h, 0)) + 4 * Cardinality(Marks(h, 1))

\* C26: checkWord never returns four exact marks together with a present
\* mark, so an evaluation that is not all exact is worth at most 40; a
\* history of at most 6 such evaluations is worth at most 240, and every
\* unsolved score /slack-guess writes to the leaderboard is the uncapped
\* credit, strictly below the cap of 400.
C26_CapNeverBinds ==
    /\ \A n \in DOMAIN Persisted :
          /\ ~(InRow(Persisted[n], 0) = 4 /\ InRow(Persisted[n], 1) = 1)
          /\ Persisted[n] # AllExactRow =>
                10 * InRow(Persisted[n], 0) + 4 * InRow(Persisted[n], 1) <= 40
    /\ Solves(Persisted) = {} => Credit(Persisted) <= 240
    /\ (leaderboard[SlackUser].stored /\ Solves(leaderboard[SlackUser].guesses) = {}) =>
          /\ leaderboard[SlackUser].score <= 240
          /\ leaderboard[SlackUser].score < PartialCap
          /\ leaderboard[SlackUser].score \in {0, Credit(leaderboard[SlackUser].guesses)}

\* Six guesses without a solve, one of them with four exact marks, and the
\* leaderboard record of the exhausted round with its uncapped credit.
C26_Witness ==
    /\ leaderboard[SlackUser].stored
    /\ leaderboard[SlackUser].guesses = Persisted
    /\ Len(Persisted) = 6
    /\ Solves(Persisted) = {}
    /\ \E n \in DOMAIN Persisted : InRow(Persisted[n], 0) = 4
    /\ leaderboard[SlackUser].score = Credit(Persisted)
    /\ leaderboard[SlackUser].score >= 100

(***************************************************************************)
(* What counts as a solve.                                                 *)
(***************************************************************************)
\* C27: calculateScore returns a solved-tier value only if some entry of the
\* history consists of five exact marks: a stored score above the cap of the
\* partial credit, which only the switch of lines 202-210 returns, belongs
\* to a history with such an entry; an empty entry or one shorter than five
\* marks is never taken for a solve.
C27_SolveNeedsFiveExact ==
    \A u \in Stored :
        leaderboard[u].score > PartialCap => Solves(leaderboard[u].guesses) # {}

(***************************************************************************)
(* Which errors are answered 400.                                          *)
(***************************************************************************)
\* The texts of the validation errors of cleanWord (lines 138-141) and of
\* the timestamp parsing of getWord (lines 86 and 104).
ValidationTexts ==
    { "Guess parameter length is invalid", "Guess must contain only letters",
      "Timestamp parameter format is invalid", "Invalid timestamp parameter type" }

\* The texts of the errors of a failed fetch.
FetchTexts == {"Failed to fetch word", "Failed to fetch words list"}

\* Answer r was written by handleError.
Handled(r) == r.status \in {400, 500} /\ "details" \in DOMAIN r

\* The error message behind an answer of handleError: the piece that opens
\* it, after the prefix of a 500.
Cause(r) == IF r.status = 400 THEN r.details[1] ELSE r.details[3]

\* C28: handleError answers 400 only for the validation errors of cleanWord
\* and of getWord's timestamp parsing; the error of a failed fetch, whatever
\* the status of the other side (400 too), is answered 500.
C28_FetchFailureIs500 ==
    \A r \in {checkResp, slackResp} :
        Handled(r) =>
            /\ r.status = 400 => Cause(r) \in ValidationTexts
            /\ Cause(r) \in FetchTexts => r.status = 500

====
